---- MODULE Spec2Model ----
(***************************************************************************)
(* Model of src/pg_replication/decoders.py: the pgoutput message decoders. *)
(*                                                                         *)
(* One decode is the construction of one message object:                   *)
(* PgoutputMessage.__init__ wraps the buffer in an io.BytesIO, reads the   *)
(* leading byte and runs the class's decode_buffer.  A state of the model  *)
(* is the state of that object between two reads of the buffer: the        *)
(* buffer, the cursor of the BytesIO, the attributes assigned so far, the  *)
(* local variables of the helper that is running, and how the constructor  *)
(* ended if it has ended.  Every action is one read of the buffer together *)
(* with the statements that follow it up to the next read.                 *)
(*                                                                         *)
(* Representation of Python values:                                        *)
(*   bytes           sequence of numbers 0..255                            *)
(*   str             sequence of code points                               *)
(*   int             a number, for the fields of 1, 2 and 4 bytes          *)
(*   int (8 bytes)   the 8-byte two's-complement image of the value,       *)
(*                   which is one-to-one with the values an 8-byte read    *)
(*                   can give and needs no 64-bit arithmetic               *)
(*   datetime        a record of its offset in microseconds from 2000-01-01Z *)
(*   Optional[T]     <<>> for None, <<v>> for a value v                    *)
(*   object          a function from the names of the attributes that      *)
(*                   have been assigned to their values                    *)
(***************************************************************************)
EXTENDS Integers, Sequences, FiniteSets, TLC

\* integer byte lengths (decoders.py lines 12-15)
INT8 == 1
INT16 == 2
INT32 == 4
INT64 == 8

\* bounds of the inputs
MaxCols == 2
MaxRels == 2

Min(a, b) == IF a < b THEN a ELSE b

\* the one-character ASCII literals of the source, as str values; the bytes
\* that encode them are the same sequences
B_ == <<66>>
C_ == <<67>>
D_ == <<68>>
I_ == <<73>>
K_ == <<75>>
N_ == <<78>>
O_ == <<79>>
R_ == <<82>>
T_ == <<84>>
U_ == <<85>>
n_ == <<110>>
t_ == <<116>>
u_ == <<117>>
NUL == <<0>>

None == <<>>
Some(v) == <<v>>

NoAttrs == [k \in {} |-> 0]
SetAttr(obj, k, v) == [a \in (DOMAIN obj) \cup {k} |-> IF a = k THEN v ELSE obj[a]]
Has(obj, k) == k \in DOMAIN obj

---------------------------------------------------------------------------
(* The pure conversions                                                    *)

SignedByte(b) == IF b >= 128 THEN b - 256 ELSE b

RECURSIVE BigEndian(_, _, _)
BigEndian(bs, i, acc) ==
    IF i > Len(bs) THEN acc ELSE BigEndian(bs, i + 1, acc * 256 + bs[i])

\* int.from_bytes(_in_bytes, byteorder="big", signed=True); b"" gives 0
convert_bytes_to_int(bs) ==
    IF bs = <<>> THEN 0 ELSE BigEndian(bs, 2, SignedByte(bs[1]))

\* the same conversion for the 8-byte reads: the value as its 8-byte
\* two's-complement image (sign extension of what was read)
convert_bytes_to_int64(bs) ==
    LET fill == IF bs # <<>> /\ bs[1] >= 128 THEN 255 ELSE 0
    IN  [i \in 1..(INT64 - Len(bs)) |-> fill] \o bs

IsCont(bs, i) == i <= Len(bs) /\ bs[i] >= 128 /\ bs[i] <= 191

\* the number of bytes of the UTF-8 sequence starting at bs[i], 0 if the
\* bytes there are not a well-formed sequence (the strict decoder of
\* bytes.decode: no overlong forms, no surrogates, nothing above U+10FFFF)
Utf8Width(bs, i) ==
    LET b == bs[i] IN
    IF b < 128 THEN 1
    ELSE IF b >= 194 /\ b <= 223 THEN (IF IsCont(bs, i + 1) THEN 2 ELSE 0)
    ELSE IF b >= 224 /\ b <= 239 THEN
        (IF IsCont(bs, i + 1) /\ IsCont(bs, i + 2)
            /\ (b = 224 => bs[i + 1] >= 160)
            /\ (b = 237 => bs[i + 1] <= 159) THEN 3 ELSE 0)
    ELSE IF b >= 240 /\ b <= 244 THEN
        (IF IsCont(bs, i + 1) /\ IsCont(bs, i + 2) /\ IsCont(bs, i + 3)
            /\ (b = 240 => bs[i + 1] >= 144)
            /\ (b = 244 => bs[i + 1] <= 143) THEN 4 ELSE 0)
    ELSE 0

Utf8CodePoint(bs, i, w) ==
    IF w = 1 THEN bs[i]
    ELSE IF w = 2 THEN (bs[i] - 192) * 64 + (bs[i + 1] - 128)
    ELSE IF w = 3 THEN (bs[i] - 224) * 4096 + (bs[i + 1] - 128) * 64 + (bs[i + 2] - 128)
    ELSE (bs[i] - 240) * 262144 + (bs[i + 1] - 128) * 4096
             + (bs[i + 2] - 128) * 64 + (bs[i + 3] - 128)

RECURSIVE Utf8Valid(_, _)
Utf8Valid(bs, i) ==
    IF i > Len(bs) THEN TRUE
    ELSE LET w == Utf8Width(bs, i) IN w > 0 /\ Utf8Valid(bs, i + w)

RECURSIVE Utf8Chars(_, _)
Utf8Chars(bs, i) ==
    IF i > Len(bs) THEN <<>>
    ELSE LET w == Utf8Width(bs, i)
         IN  <<Utf8CodePoint(bs, i, w)>> \o Utf8Chars(bs, i + w)

\* (_in_bytes).decode("utf-8"): raises UnicodeDecodeError on bytes that are
\* not UTF-8, and otherwise gives the str
Utf8Raises(bs) == ~Utf8Valid(bs, 1)
convert_bytes_to_utf8(bs) == Utf8Chars(bs, 1)

\* the offsets of datetime.min and datetime.max from 2000-01-01T00:00:00Z in
\* microseconds, as 8-byte images: -63082281600000000 and 252455615999999999
TsMin == <<255, 31, 226, 255, 197, 156, 96, 0>>
TsMax == <<3, 128, 231, 11, 145, 59, 127, 255>>

\* the order of the values of two 8-byte images
RECURSIVE LexLeq(_, _, _)
LexLeq(x, y, i) ==
    IF i > Len(x) THEN TRUE
    ELSE IF x[i] # y[i] THEN x[i] < y[i]
    ELSE LexLeq(x, y, i + 1)
Leq64(x, y) ==
    LET kx == [x EXCEPT ![1] = (x[1] + 128) % 256]
        ky == [y EXCEPT ![1] = (y[1] + 128) % 256]
    IN  LexLeq(kx, ky, 1)

\* ts + timedelta(microseconds=...) raises OverflowError when the sum is not
\* a datetime, and otherwise gives the datetime
PgTsRaises(us) == ~(Leq64(TsMin, us) /\ Leq64(us, TsMax))
convert_pg_ts(us) == [utc_microseconds_since_2000 |-> us]

---------------------------------------------------------------------------
(* The buffers handed to the constructors                                  *)

Classes == {"Begin", "Commit", "Relation", "Insert", "Update", "Delete", "Truncate"}

\* the byte the class's decode_buffer compares byte1 with
TagOf(c) ==
    CASE c = "Begin" -> B_ [] c = "Commit" -> C_ [] c = "Relation" -> R_
      [] c = "Insert" -> I_ [] c = "Update" -> U_ [] c = "Delete" -> D_
      [] c = "Truncate" -> T_

I16(k) == <<0, k>>
I32(k) == <<0, 0, 0, k>>
I64(k) == <<0, 0, 0, 0, 0, 0, 0, k>>
I16Neg == <<255, 255>>
I32Neg == <<255, 255, 255, 255>>
NotUtf8 == <<255>>
Other == <<120>>
Name == <<97>>

\* all concatenations of k members of S
RECURSIVE Concats(_, _)
Concats(S, k) ==
    IF k = 0 THEN {<<>>}
    ELSE {h \o t : h \in S, t \in Concats(S, k - 1)}

Cat2(A, B) == {x \o y : x \in A, y \in B}

\* a column of a TupleData: NULL, unchanged TOAST, a text value, or a tag
\* that is none of the three
ColumnSamples == {n_, u_, t_ \o I32(1) \o Name, Other}

\* a TupleData: a count and that many columns; a negative count; a text
\* value of two bytes that encode one character; a text value whose length
\* is negative
TupleSamples ==
    UNION {Cat2({I16(k)}, Concats(ColumnSamples, k)) : k \in 0..MaxCols}
      \cup {I16Neg,
            I16(1) \o t_ \o I32(2) \o <<195, 169>>,
            I16(1) \o t_ \o I32Neg \o Name}

\* the 8-byte fields: a small value, and a value that is no datetime offset
Int64Samples == {I64(100), <<255, 0, 0, 0, 0, 0, 0, 0>>}

\* NUL-terminated identifiers: empty, ASCII, two bytes that encode one
\* character, and bytes that are not UTF-8
StringSamples == {NUL, Name \o NUL, <<195, 169>> \o NUL, NotUtf8 \o NUL}

\* a column of a Relation message: flags, name, type id, atttypmod
ColumnTypeSamples == {<<1>> \o Name \o NUL \o I32(23) \o I32Neg}

Bodies(c) ==
    CASE c = "Begin" ->
           Cat2({I64(100)}, Cat2(Int64Samples, {I64(100)}))
      [] c = "Commit" ->
           Cat2({<<0>>}, Cat2({I64(100)}, Cat2({I64(100)}, Int64Samples)))
      [] c = "Relation" ->
           Cat2({I32(1)}, Cat2({NUL, Name \o NUL, Name}, Cat2(StringSamples, Cat2({<<100>>},
             UNION {Cat2({I16(k)}, Concats(ColumnTypeSamples, k)) : k \in 0..MaxCols}
               \cup {I16Neg}))))
      [] c = "Insert" ->
           Cat2({I32(1)}, Cat2({N_, Other}, TupleSamples))
      [] c = "Update" ->
           Cat2({I32(1)},
             Cat2({K_, O_}, Cat2(TupleSamples, Cat2({N_, Other}, TupleSamples)))
               \cup Cat2({N_}, TupleSamples) \cup {Other, NotUtf8})
      [] c = "Delete" ->
           Cat2({I32(1)}, Cat2({K_, O_}, TupleSamples) \cup {N_, NotUtf8})
      [] c = "Truncate" ->
           UNION {Cat2({I32(k)}, Cat2({<<0>>, <<3>>}, Concats({I32(7), I32(9)}, k)))
                    : k \in 0..MaxRels}
             \cup {I32Neg \o <<1>> \o I32(7)}

\* the messages of the class, and buffers that start with another byte than
\* the class's tag; the constructor is given any of them cut at any byte
Inputs(c) ==
    Cat2({TagOf(c)}, Bodies(c))
      \cup Cat2({TagOf(d) : d \in Classes \ {c}} \cup {NotUtf8}, {<<0>>})

---------------------------------------------------------------------------
(* The state of one decode                                                 *)

VARIABLES
    cls,      \* the class being constructed
    buffer,   \* the bytes given to the constructor
    pos,      \* the position of self.buffer, the io.BytesIO
    pc,       \* the statement the constructor is at
    ret,      \* inside read_string and read_tuple_data: the call being served
    msg,      \* the attributes of self assigned so far
    loc,      \* the local variables of the running decode_buffer and helper
    outcome,  \* "running", "returned", or the exception the constructor raised
    short     \* whether a read of the buffer has returned fewer bytes than asked

vars == <<cls, buffer, pos, pc, ret, msg, loc, outcome, short>>

\* The exceptions the source raises:
\*   "TagMismatch"                        ValueError("first byte in buffer does not match ...")
\*   "ExpectedNewTupleMarker"             ValueError("did not find new_tuple_byte ('N') ...")
\*   "InvalidReplicaIdentityOrMessageTag" ValueError("message type byte is not 'K' or 'O' ...")
\*   "InvalidEncoding"                    UnicodeDecodeError of bytes.decode
\*   "OverflowError"                      OverflowError of datetime + timedelta
\* The source raises nothing else.
Raised == {"TagMismatch", "ExpectedNewTupleMarker", "InvalidReplicaIdentityOrMessageTag",
           "InvalidEncoding", "OverflowError"}

Init ==
    /\ cls \in Classes
    /\ \E b \in Inputs(cls) : \E k \in 0..Len(b) : buffer = SubSeq(b, 1, k)
    /\ pos = 0
    /\ pc = "init"
    /\ ret = ""
    /\ msg = NoAttrs
    /\ loc = NoAttrs
    /\ outcome = "running"
    /\ short = FALSE

\* self.buffer.read(n): the next n bytes, or those that remain when they are
\* fewer; every byte that remains when n is negative
BufRead(n) ==
    IF n < 0 THEN SubSeq(buffer, pos + 1, Len(buffer))
    ELSE SubSeq(buffer, pos + 1, Min(pos + n, Len(buffer)))

\* a cursor advanced by the number of bytes asked for
Tell_AdvanceByRequest(bs, n) == pos + n

\* the position of the BytesIO after read(n) has returned bs
Tell(bs, n) == pos + Len(bs)

Consume(bs, n) ==
    /\ pos' = Tell(bs, n)
    /\ short' = (short \/ (n >= 0 /\ Len(bs) < n))

Raise(e) == pc' = "done" /\ outcome' = e
Goto(next) ==
    /\ pc' = next
    /\ outcome' = IF next = "done" THEN "returned" ELSE outcome

Without(obj, k) == [a \in (DOMAIN obj) \ {k} |-> obj[a]]

\* PgoutputMessage.__init__ up to the call of decode_buffer
Construct ==
    /\ pc = "init"
    /\ LET bs == BufRead(1) IN
        /\ Consume(bs, 1)
        /\ IF Utf8Raises(bs)
           THEN Raise("InvalidEncoding") /\ UNCHANGED msg
           ELSE msg' = SetAttr(msg, "byte1", convert_bytes_to_utf8(bs))
                /\ Goto("decode_buffer")
    /\ UNCHANGED <<cls, buffer, ret, loc>>

\* a test that lets the byte1 of an empty buffer pass
TagMismatch_EmptyPasses(c, byte1) == byte1 # TagOf(c) /\ byte1 # <<>>

\* the test every decode_buffer starts with
TagMismatch(c, byte1) == byte1 # TagOf(c)

TagCheck(c, m, first) ==
    /\ pc = "decode_buffer"
    /\ cls = c
    /\ msg' = m
    /\ IF TagMismatch(c, m.byte1) THEN Raise("TagMismatch") ELSE Goto(first)
    /\ UNCHANGED <<cls, buffer, pos, ret, loc, short>>

\* self.<attr> = self.read_int8/16/32()
IntField(at, n, attr, next) ==
    /\ pc = at
    /\ LET bs == BufRead(n) IN
        /\ Consume(bs, n)
        /\ msg' = SetAttr(msg, attr, convert_bytes_to_int(bs))
    /\ Goto(next)
    /\ UNCHANGED <<cls, buffer, ret, loc>>

\* self.<attr> = self.read_int64()
Int64Field(at, attr, next) ==
    /\ pc = at
    /\ LET bs == BufRead(INT64) IN
        /\ Consume(bs, INT64)
        /\ msg' = SetAttr(msg, attr, convert_bytes_to_int64(bs))
    /\ Goto(next)
    /\ UNCHANGED <<cls, buffer, ret, loc>>

\* self.commit_ts = self.read_timestamp()
TimestampField(at, next) ==
    /\ pc = at
    /\ LET bs == BufRead(INT64)
           us == convert_bytes_to_int64(bs)
       IN
        /\ Consume(bs, INT64)
        /\ IF PgTsRaises(us)
           THEN Raise("OverflowError") /\ UNCHANGED msg
           ELSE msg' = SetAttr(msg, "commit_ts", convert_pg_ts(us)) /\ Goto(next)
    /\ UNCHANGED <<cls, buffer, ret, loc>>

---------------------------------------------------------------------------
(* Begin and Commit                                                        *)

Begin_byte1 == TagCheck("Begin", msg, "Begin_lsn")
Begin_lsn == Int64Field("Begin_lsn", "lsn", "Begin_commit_ts")
Begin_commit_ts == TimestampField("Begin_commit_ts", "Begin_tx_xid")
Begin_tx_xid == Int64Field("Begin_tx_xid", "tx_xid", "done")

Commit_byte1 == TagCheck("Commit", msg, "Commit_flags")
Commit_flags == IntField("Commit_flags", INT8, "flags", "Commit_lsn_commit")
Commit_lsn_commit == Int64Field("Commit_lsn_commit", "lsn_commit", "Commit_lsn")
Commit_lsn == Int64Field("Commit_lsn", "lsn", "Commit_commit_ts")
Commit_commit_ts == TimestampField("Commit_commit_ts", "done")

---------------------------------------------------------------------------
(* read_string, and Relation which calls it                                *)

\* the call of read_string that serves `call`: output = bytearray()
CallReadString(call) ==
    /\ pc' = "read_string"
    /\ ret' = call
    /\ outcome' = outcome

\* one turn of the loop of read_string whose read(1) is not b"\x00"; at the
\* end of the buffer the read gives b"" and the turn changes nothing
read_string_loop ==
    /\ pc = "read_string"
    /\ LET next_char == BufRead(1) IN
        /\ next_char # NUL
        /\ Consume(next_char, 1)
        /\ loc' = SetAttr(loc, "output", loc.output \o next_char)
    /\ UNCHANGED <<cls, buffer, pc, ret, msg, outcome>>

\* the turn that reads b"\x00": the loop ends, the output is decoded and the
\* caller's assignment is made
read_string_return ==
    /\ pc = "read_string"
    /\ LET next_char == BufRead(1)
           caller == Without(loc, "output")
       IN
        /\ next_char = NUL
        /\ Consume(next_char, 1)
        /\ IF Utf8Raises(loc.output)
           THEN Raise("InvalidEncoding") /\ UNCHANGED <<ret, msg, loc>>
           ELSE LET value == convert_bytes_to_utf8(loc.output) IN
             CASE ret = "namespace" ->
                    /\ msg' = SetAttr(msg, "namespace", value)
                    /\ loc' = SetAttr(caller, "output", <<>>)
                    /\ CallReadString("relation_name")
               [] ret = "relation_name" ->
                    /\ msg' = SetAttr(msg, "relation_name", value)
                    /\ loc' = caller
                    /\ ret' = ""
                    /\ Goto("Relation_replica_identity_setting")
               [] ret = "col_name" ->
                    /\ msg' = msg
                    /\ loc' = SetAttr(caller, "col_name", value)
                    /\ ret' = ""
                    /\ Goto("Relation_data_type_id")
    /\ UNCHANGED <<cls, buffer>>

Relation_byte1 == TagCheck("Relation", msg, "Relation_relation_id")

Relation_relation_id ==
    /\ pc = "Relation_relation_id"
    /\ LET bs == BufRead(INT32) IN
        /\ Consume(bs, INT32)
        /\ msg' = SetAttr(msg, "relation_id", convert_bytes_to_int(bs))
    /\ loc' = SetAttr(loc, "output", <<>>)
    /\ CallReadString("namespace")
    /\ UNCHANGED <<cls, buffer>>

Relation_replica_identity_setting ==
    /\ pc = "Relation_replica_identity_setting"
    /\ LET bs == BufRead(1) IN
        /\ Consume(bs, 1)
        /\ IF Utf8Raises(bs)
           THEN Raise("InvalidEncoding") /\ UNCHANGED msg
           ELSE /\ msg' = SetAttr(msg, "replica_identity_setting", convert_bytes_to_utf8(bs))
                /\ Goto("Relation_n_columns")
    /\ UNCHANGED <<cls, buffer, ret, loc>>

\* self.n_columns = self.read_int16(); self.columns = list(); the for
\* statement starts its first turn or ends at once
Relation_n_columns ==
    /\ pc = "Relation_n_columns"
    /\ LET bs == BufRead(INT16)
           n == convert_bytes_to_int(bs)
       IN
        /\ Consume(bs, INT16)
        /\ msg' = SetAttr(SetAttr(msg, "n_columns", n), "columns", <<>>)
        /\ IF n > 0
           THEN loc' = SetAttr(loc, "column", 0) /\ Goto("Relation_part_of_pkey")
           ELSE loc' = loc /\ Goto("done")
    /\ UNCHANGED <<cls, buffer, ret>>

Relation_part_of_pkey ==
    /\ pc = "Relation_part_of_pkey"
    /\ LET bs == BufRead(INT8) IN
        /\ Consume(bs, INT8)
        /\ loc' = SetAttr(SetAttr(loc, "part_of_pkey", convert_bytes_to_int(bs)),
                          "output", <<>>)
    /\ CallReadString("col_name")
    /\ UNCHANGED <<cls, buffer, msg>>

Relation_data_type_id ==
    /\ pc = "Relation_data_type_id"
    /\ LET bs == BufRead(INT32) IN
        /\ Consume(bs, INT32)
        /\ loc' = SetAttr(loc, "data_type_id", convert_bytes_to_int(bs))
    /\ Goto("Relation_col_modifier")
    /\ UNCHANGED <<cls, buffer, ret, msg>>

\* col_modifier = self.read_int32(), the append, and the next turn of the
\* for statement or its end
Relation_col_modifier ==
    /\ pc = "Relation_col_modifier"
    /\ LET bs == BufRead(INT32)
           col_modifier == convert_bytes_to_int(bs)
           column_type == [part_of_pkey |-> loc.part_of_pkey, name |-> loc.col_name,
                           type_id |-> loc.data_type_id, atttypmod |-> col_modifier]
       IN
        /\ Consume(bs, INT32)
        /\ msg' = SetAttr(msg, "columns", Append(msg.columns, column_type))
        /\ loc' = SetAttr(SetAttr(loc, "col_modifier", col_modifier),
                          "column", loc.column + 1)
        /\ IF loc.column + 1 < msg.n_columns
           THEN Goto("Relation_part_of_pkey")
           ELSE Goto("done")
    /\ UNCHANGED <<cls, buffer, ret>>

---------------------------------------------------------------------------
(* read_tuple_data                                                         *)

\* the call of read_tuple_data that serves `call`
CallReadTupleData(call) ==
    /\ pc' = "read_tuple_data"
    /\ ret' = call
    /\ loc' = NoAttrs
    /\ outcome' = outcome

\* the for statement of read_tuple_data after the turn for column i
NextColumn(i, n) == IF i + 1 < n THEN "tuple_category" ELSE "tuple_return"

\* what the loop does with a category that is neither "n", "u" nor "t"
OtherCategory(i, n) == Goto(NextColumn(i, n))

\* column_data = list(); n_columns = self.read_int16()
read_tuple_data_n_columns ==
    /\ pc = "read_tuple_data"
    /\ LET bs == BufRead(INT16)
           n == convert_bytes_to_int(bs)
       IN
        /\ Consume(bs, INT16)
        /\ loc' = [column_data |-> <<>>, n_columns |-> n, column |-> 0]
        /\ IF n > 0 THEN Goto("tuple_category") ELSE Goto("tuple_return")
    /\ UNCHANGED <<cls, buffer, ret, msg>>

\* col_data_category = self.read_utf8() and the branch on it
read_tuple_data_category ==
    /\ pc = "tuple_category"
    /\ LET bs == BufRead(1)
           cat == convert_bytes_to_utf8(bs)
           here == SetAttr(loc, "col_data_category", cat)
           i == loc.column
       IN
        /\ Consume(bs, 1)
        /\ IF Utf8Raises(bs)
           THEN Raise("InvalidEncoding") /\ UNCHANGED loc
           ELSE IF cat \in {n_, u_}
           THEN /\ loc' = [here EXCEPT
                              !.column_data = Append(@, [col_data_category |-> cat,
                                                         col_data_length |-> None,
                                                         col_data |-> None]),
                              !.column = i + 1]
                /\ Goto(NextColumn(i, loc.n_columns))
           ELSE IF cat = t_
           THEN loc' = here /\ Goto("tuple_length")
           ELSE /\ loc' = [here EXCEPT !.column = i + 1]
                /\ OtherCategory(i, loc.n_columns)
    /\ UNCHANGED <<cls, buffer, ret, msg>>

\* col_data_length = self.read_int32()
read_tuple_data_length ==
    /\ pc = "tuple_length"
    /\ LET bs == BufRead(INT32) IN
        /\ Consume(bs, INT32)
        /\ loc' = SetAttr(loc, "col_data_length", convert_bytes_to_int(bs))
    /\ Goto("tuple_value")
    /\ UNCHANGED <<cls, buffer, ret, msg>>

\* col_data = self.read_utf8(col_data_length) and the append
read_tuple_data_value ==
    /\ pc = "tuple_value"
    /\ LET bs == BufRead(loc.col_data_length)
           i == loc.column
       IN
        /\ Consume(bs, loc.col_data_length)
        /\ IF Utf8Raises(bs)
           THEN Raise("InvalidEncoding") /\ UNCHANGED loc
           ELSE /\ loc' = [SetAttr(loc, "col_data", convert_bytes_to_utf8(bs)) EXCEPT
                              !.column_data = Append(@,
                                  [col_data_category |-> loc.col_data_category,
                                   col_data_length |-> Some(loc.col_data_length),
                                   col_data |-> Some(convert_bytes_to_utf8(bs))]),
                              !.column = i + 1]
                /\ Goto(NextColumn(i, loc.n_columns))
    /\ UNCHANGED <<cls, buffer, ret, msg>>

\* return TupleData(n_columns=n_columns, column_data=column_data), and the
\* caller's assignment
read_tuple_data_return ==
    /\ pc = "tuple_return"
    /\ LET tuple == [n_columns |-> loc.n_columns, column_data |-> loc.column_data] IN
         CASE ret = "Insert_new_tuple" ->
                msg' = SetAttr(msg, "new_tuple", tuple) /\ Goto("done")
           [] ret = "Update_old_tuple" ->
                msg' = SetAttr(msg, "old_tuple", Some(tuple)) /\ Goto("Update_new_tuple_byte")
           [] ret = "Update_new_tuple" ->
                msg' = SetAttr(msg, "new_tuple", tuple) /\ Goto("done")
           [] ret = "Delete_old_tuple" ->
                msg' = SetAttr(msg, "old_tuple", tuple) /\ Goto("done")
    /\ ret' = ""
    /\ loc' = NoAttrs
    /\ UNCHANGED <<cls, buffer, pos, short>>

---------------------------------------------------------------------------
(* Insert, Update, Delete                                                  *)

Insert_byte1 == TagCheck("Insert", msg, "Insert_relation_id")
Insert_relation_id == IntField("Insert_relation_id", INT32, "relation_id", "Insert_new_tuple_byte")

\* self.new_tuple_byte = self.read_utf8(), then the call of read_tuple_data
Insert_new_tuple_byte ==
    /\ pc = "Insert_new_tuple_byte"
    /\ LET bs == BufRead(1) IN
        /\ Consume(bs, 1)
        /\ IF Utf8Raises(bs)
           THEN Raise("InvalidEncoding") /\ UNCHANGED <<msg, ret, loc>>
           ELSE /\ msg' = SetAttr(msg, "new_tuple_byte", convert_bytes_to_utf8(bs))
                /\ CallReadTupleData("Insert_new_tuple")
    /\ UNCHANGED <<cls, buffer>>

\* the two assignments of None come before the test of byte1
Update_byte1 ==
    TagCheck("Update",
             SetAttr(SetAttr(msg, "optional_tuple_identifier", None), "old_tuple", None),
             "Update_relation_id")
Update_relation_id == IntField("Update_relation_id", INT32, "relation_id", "Update_next_byte_identifier")

\* a test that lets a missing byte pass
NotNewTupleByte_EmptyPasses(new_tuple_byte) == new_tuple_byte # N_ /\ new_tuple_byte # <<>>

\* the test made of new_tuple_byte before the new tuple is read
NotNewTupleByte(new_tuple_byte) == new_tuple_byte # N_

\* self.next_byte_identifier = self.read_utf8() and the branch on it: the
\* call of read_tuple_data for the old tuple, or new_tuple_byte and its test
Update_next_byte_identifier ==
    /\ pc = "Update_next_byte_identifier"
    /\ LET bs == BufRead(1)
           id == convert_bytes_to_utf8(bs)
           m == SetAttr(msg, "next_byte_identifier", id)
       IN
        /\ Consume(bs, 1)
        /\ IF Utf8Raises(bs)
           THEN Raise("InvalidEncoding") /\ UNCHANGED <<msg, ret, loc>>
           ELSE IF id = K_ \/ id = O_
           THEN /\ msg' = SetAttr(m, "optional_tuple_identifier", Some(id))
                /\ CallReadTupleData("Update_old_tuple")
           ELSE /\ msg' = SetAttr(m, "new_tuple_byte", id)
                /\ IF NotNewTupleByte(id)
                   THEN Raise("ExpectedNewTupleMarker") /\ UNCHANGED <<ret, loc>>
                   ELSE CallReadTupleData("Update_new_tuple")
    /\ UNCHANGED <<cls, buffer>>

\* self.new_tuple_byte = self.read_utf8() after the old tuple, and its test
Update_new_tuple_byte ==
    /\ pc = "Update_new_tuple_byte"
    /\ LET bs == BufRead(1)
           b == convert_bytes_to_utf8(bs)
       IN
        /\ Consume(bs, 1)
        /\ IF Utf8Raises(bs)
           THEN Raise("InvalidEncoding") /\ UNCHANGED <<msg, ret, loc>>
           ELSE /\ msg' = SetAttr(msg, "new_tuple_byte", b)
                /\ IF NotNewTupleByte(b)
                   THEN Raise("ExpectedNewTupleMarker") /\ UNCHANGED <<ret, loc>>
                   ELSE CallReadTupleData("Update_new_tuple")
    /\ UNCHANGED <<cls, buffer>>

Delete_byte1 == TagCheck("Delete", msg, "Delete_relation_id")
Delete_relation_id == IntField("Delete_relation_id", INT32, "relation_id", "Delete_message_type")

\* a test that takes 'N' too, as Update does
NotKeyOrOld_AlsoNew(message_type) == message_type \notin {K_, O_, N_}

\* the test made of message_type before the old tuple is read
NotKeyOrOld(message_type) == message_type \notin {K_, O_}

\* self.message_type = self.read_utf8(), its test, and the call of
\* read_tuple_data
Delete_message_type ==
    /\ pc = "Delete_message_type"
    /\ LET bs == BufRead(1)
           t == convert_bytes_to_utf8(bs)
       IN
        /\ Consume(bs, 1)
        /\ IF Utf8Raises(bs)
           THEN Raise("InvalidEncoding") /\ UNCHANGED <<msg, ret, loc>>
           ELSE /\ msg' = SetAttr(msg, "message_type", t)
                /\ IF NotKeyOrOld(t)
                   THEN Raise("InvalidReplicaIdentityOrMessageTag") /\ UNCHANGED <<ret, loc>>
                   ELSE CallReadTupleData("Delete_old_tuple")
    /\ UNCHANGED <<cls, buffer>>

---------------------------------------------------------------------------
(* Truncate                                                                *)

Truncate_byte1 == TagCheck("Truncate", msg, "Truncate_number_of_relations")
Truncate_number_of_relations ==
    IntField("Truncate_number_of_relations", INT32, "number_of_relations", "Truncate_option_bits")

\* self.option_bits = self.read_int8(); self.relation_ids = []; the for
\* statement starts its first turn or ends at once
Truncate_option_bits ==
    /\ pc = "Truncate_option_bits"
    /\ LET bs == BufRead(INT8) IN
        /\ Consume(bs, INT8)
        /\ msg' = SetAttr(SetAttr(msg, "option_bits", convert_bytes_to_int(bs)),
                          "relation_ids", <<>>)
    /\ IF msg.number_of_relations > 0
       THEN loc' = SetAttr(loc, "relation", 0) /\ Goto("Truncate_relation_ids")
       ELSE loc' = loc /\ Goto("done")
    /\ UNCHANGED <<cls, buffer, ret>>

\* self.relation_ids.append(self.read_int32()), and the next turn or the end
Truncate_relation_ids ==
    /\ pc = "Truncate_relation_ids"
    /\ LET bs == BufRead(INT32) IN
        /\ Consume(bs, INT32)
        /\ msg' = SetAttr(msg, "relation_ids",
                          Append(msg.relation_ids, convert_bytes_to_int(bs)))
    /\ loc' = SetAttr(loc, "relation", loc.relation + 1)
    /\ IF loc.relation + 1 < msg.number_of_relations
       THEN Goto("Truncate_relation_ids")
       ELSE Goto("done")
    /\ UNCHANGED <<cls, buffer, ret>>

---------------------------------------------------------------------------

Next ==
    \/ Construct
    \/ Begin_byte1 \/ Begin_lsn \/ Begin_commit_ts \/ Begin_tx_xid
    \/ Commit_byte1 \/ Commit_flags \/ Commit_lsn_commit \/ Commit_lsn \/ Commit_commit_ts
    \/ Relation_byte1 \/ Relation_relation_id \/ Relation_replica_identity_setting
    \/ Relation_n_columns \/ Relation_part_of_pkey \/ Relation_data_type_id
    \/ Relation_col_modifier
    \/ read_string_loop \/ read_string_return
    \/ read_tuple_data_n_columns \/ read_tuple_data_category \/ read_tuple_data_length
    \/ read_tuple_data_value \/ read_tuple_data_return
    \/ Insert_byte1 \/ Insert_relation_id \/ Insert_new_tuple_byte
    \/ Update_byte1 \/ Update_relation_id \/ Update_next_byte_identifier
    \/ Update_new_tuple_byte
    \/ Delete_byte1 \/ Delete_relation_id \/ Delete_message_type
    \/ Truncate_byte1 \/ Truncate_number_of_relations \/ Truncate_option_bits
    \/ Truncate_relation_ids

Spec == Init /\ [][Next]_vars

---------------------------------------------------------------------------
(* The properties                                                          *)

Returned == outcome = "returned"
Failed == outcome \in Raised

\* the byte of the buffer at offset i (from 0), as bytes; b"" past the end
ByteAt(i) == IF i < Len(buffer) THEN <<buffer[i + 1]>> ELSE <<>>

\* buffer[i : i + n]
Slice(i, n) == SubSeq(buffer, Min(i, Len(buffer)) + 1, Min(i + n, Len(buffer)))

\* the TupleData values read_tuple_data has returned to the decoder
ReturnedTuples ==
    (IF Has(msg, "new_tuple") THEN {msg.new_tuple} ELSE {})
      \cup (IF cls = "Delete" /\ Has(msg, "old_tuple") THEN {msg.old_tuple} ELSE {})
      \cup (IF cls = "Update" /\ Has(msg, "old_tuple") /\ msg.old_tuple # None
            THEN {msg.old_tuple[1]} ELSE {})

\* C1: a decode in which a read of the buffer found fewer bytes than the
\* field needs never returns a message.
C1_TruncatedNeverReturns ==
    Returned => ~short

\* C2: read_string terminates on every buffer: while it runs, a turn of its
\* loop that changes the state is always possible, also when it has reached
\* the end of the buffer without meeting a zero byte (there the decode must
\* end with UnexpectedEndOfBuffer).
C2_ReadStringTerminates ==
    (pc = "read_string" /\ outcome = "running") => ENABLED <<Next>>_vars

\* C3: every TupleData value read_tuple_data returns has as many entries in
\* column_data as its n_columns says (here: also when every read found the
\* bytes it asked for).
C3_TupleDataLength ==
    ~short => \A t \in ReturnedTuples : Len(t.column_data) = t.n_columns

\* C4: once read_tuple_data has read a column tag byte that is none of 'n',
\* 'u' and 't', the decode has failed with InvalidColumnCategory.
C4_InvalidCategoryFails ==
    (/\ pc \in {"tuple_category", "tuple_length", "tuple_value", "tuple_return"}
     /\ Has(loc, "col_data_category")
     /\ Len(loc.col_data_category) = 1
     /\ loc.col_data_category \notin {n_, u_, t_})
        => outcome = "InvalidColumnCategory"

\* C6: an Insert whose tag byte after relation_id is a byte other than 'N'
\* fails, and every Insert that is returned has new_tuple_byte = 'N'.
C6_InsertNewTupleByte ==
    (cls = "Insert" /\ ~short) =>
        /\ (Has(msg, "new_tuple_byte") /\ msg.new_tuple_byte # N_)
              => (Failed /\ pc = "done")
        /\ Returned => msg.new_tuple_byte = N_

\* C9: every Truncate that is returned (here: from a buffer that held every
\* byte that was read) has as many relation_ids as number_of_relations says,
\* each the 4 bytes at its place in the buffer, and option_bits is the byte
\* after the count.
C9_TruncateRelationIds ==
    (cls = "Truncate" /\ Returned /\ ~short) =>
        /\ Len(msg.relation_ids) = msg.number_of_relations
        /\ msg.option_bits = convert_bytes_to_int(ByteAt(5))
        /\ \A i \in 1..Len(msg.relation_ids) :
              msg.relation_ids[i] = convert_bytes_to_int(Slice(2 + 4 * i, INT32))

\* the tag byte that follows relation_id in Insert, Update and Delete
TagAfterRelationId == ByteAt(5)

\* the decoder has made the read of the tag byte that follows relation_id
PastTag(at) == Has(msg, "relation_id") /\ pc # at

\* C5: Update follows the two-step tag grammar.  A first tag byte 'K' or
\* 'O' is recorded as optional_tuple_identifier, the old tuple is decoded
\* before the next tag byte is read, and that byte must be 'N' or the decode
\* fails; a first tag byte 'N' leaves optional_tuple_identifier and old_tuple
\* None; any other first tag byte, or none, fails without a tuple being
\* read.  Every Update that is returned has new_tuple_byte = 'N', a
\* new_tuple, and an old_tuple exactly if optional_tuple_identifier is 'K'
\* or 'O'.
C5_UpdateGrammar ==
    (cls = "Update" /\ PastTag("Update_next_byte_identifier")) =>
        LET first == TagAfterRelationId IN
        /\ first \in {K_, O_} =>
              /\ msg.optional_tuple_identifier = Some(first)
              /\ Has(msg, "new_tuple_byte") => msg.old_tuple # None
              /\ (Has(msg, "new_tuple_byte") /\ msg.new_tuple_byte # N_)
                    => (Failed /\ pc = "done" /\ ~Has(msg, "new_tuple"))
        /\ first = N_ =>
              /\ msg.optional_tuple_identifier = None
              /\ msg.old_tuple = None
              /\ msg.new_tuple_byte = N_
        /\ first \notin {K_, O_, N_} =>
              /\ Failed /\ pc = "done"
              /\ msg.old_tuple = None /\ ~Has(msg, "new_tuple")
              /\ pos = Min(6, Len(buffer))
        /\ Returned =>
              /\ msg.new_tuple_byte = N_
              /\ Has(msg, "new_tuple")
              /\ (msg.old_tuple # None
                    <=> msg.optional_tuple_identifier \in {Some(K_), Some(O_)})

\* C5's case: an Update with a key tuple of a column and a new tuple of two
\* has been returned
C5_Witness ==
    /\ cls = "Update" /\ Returned /\ ~short
    /\ msg.optional_tuple_identifier = Some(K_)
    /\ Len(msg.old_tuple[1].column_data) = 1
    /\ Len(msg.new_tuple.column_data) = 2

\* C7 as stated: a Delete whose tag byte after relation_id is anything other
\* than 'K' or 'O', a missing byte included, fails with
\* InvalidReplicaIdentityOrMessageTag.
C7_AnyOtherTagIsInvalidReplicaIdentity ==
    (cls = "Delete" /\ PastTag("Delete_message_type")
       /\ TagAfterRelationId \notin {K_, O_})
        => outcome = "InvalidReplicaIdentityOrMessageTag"

\* C7 amended: a Delete whose tag byte after relation_id is missing or is a
\* byte below 0x80 other than 'K' and 'O' fails with
\* InvalidReplicaIdentityOrMessageTag; one whose tag byte is 0x80 or above
\* fails with the decoding error of read_utf8; either way nothing is read
\* after the tag byte and there is no old_tuple.  Every Delete that is
\* returned has message_type 'K' or 'O' and an old_tuple.
C7_DeleteTag ==
    (cls = "Delete" /\ PastTag("Delete_message_type")) =>
        LET tag == TagAfterRelationId IN
        /\ (tag \notin {K_, O_} /\ ~Utf8Raises(tag)) =>
              /\ outcome = "InvalidReplicaIdentityOrMessageTag"
              /\ msg.message_type = tag
        /\ Utf8Raises(tag) =>
              /\ outcome = "InvalidEncoding"
              /\ ~Has(msg, "message_type")
        /\ tag \notin {K_, O_} =>
              /\ pc = "done"
              /\ pos = Min(6, Len(buffer))
              /\ loc = NoAttrs /\ ~Has(msg, "old_tuple")
        /\ Returned =>
              /\ msg.message_type \in {K_, O_}
              /\ Has(msg, "old_tuple")

\* C7's case: a Delete whose buffer ends after relation_id has failed
C7_Witness ==
    /\ cls = "Delete" /\ Len(buffer) = 5
    /\ outcome = "InvalidReplicaIdentityOrMessageTag"

\* the attributes a constructor has assigned when its test of byte1 is made
BeforeFields == {"byte1", "optional_tuple_identifier", "old_tuple"}

\* C8 as stated: a decoder given a buffer that is empty or starts with
\* another byte than its tag fails with the tag-mismatch error, and has read
\* nothing after the leading byte.
C8_WrongLeadingByteIsTagMismatch ==
    (pc \notin {"init", "decode_buffer"} /\ ByteAt(0) # TagOf(cls))
        => (outcome = "TagMismatch" /\ pos <= 1 /\ DOMAIN msg \subseteq BeforeFields)

\* C8 amended: a decoder given a buffer that is empty or starts with a byte
\* below 0x80 other than its tag fails with the tag-mismatch error; given a
\* leading byte of 0x80 or above, the constructor fails with the decoding
\* error of read_utf8 before decode_buffer runs; either way nothing after
\* the leading byte has been read and no field has been assigned.
C8_LeadingByte ==
    /\ (pc \notin {"init", "decode_buffer"} /\ ByteAt(0) # TagOf(cls)) =>
          /\ outcome = IF Utf8Raises(ByteAt(0)) THEN "InvalidEncoding" ELSE "TagMismatch"
          /\ pc = "done" /\ pos <= 1
          /\ DOMAIN msg \subseteq (IF Utf8Raises(ByteAt(0)) THEN {} ELSE BeforeFields)
    /\ pc \in {"init", "decode_buffer"} => pos <= 1

\* C8's case: an Update given two bytes of which the first is another tag
\* has failed
C8_Witness ==
    /\ cls = "Update" /\ Len(buffer) = 2 /\ ByteAt(0) = D_
    /\ outcome = "TagMismatch" /\ pos = 1

\* C10: the cursor is between 0 and the length of the buffer in every state,
\* no step moves it backwards, and no step changes the buffer.
C10_CursorForwardOnly ==
    /\ [](pos >= 0 /\ pos <= Len(buffer))
    /\ [][pos' >= pos /\ buffer' = buffer]_vars

\* C10's case: after several reads, a read at the end of a buffer of more
\* than 10 bytes has come back short
C10_Witness ==
    /\ short /\ pos = Len(buffer) /\ pos > 10

====
